---- MODULE Spec2Model ----
(***************************************************************************)
(* Model of the orchestration core of the data_extractor package:          *)
(*   engine.py  PipelineEngine.run, _run_extract, _run_load, _do_extract,  *)
(*              _do_load, _with_retry, _resolve_step_config                *)
(*   state.py   StateManager.get_cursor, save_cursor, _read, _to_native    *)
(*   registry.py get_extractor, get_transformer, get_loader                *)
(*   extractors/base.py, loaders/base.py  __enter__ / __exit__             *)
(*                                                                         *)
(* One pipeline run is a linear sequence of blocking calls.  Every call    *)
(* into a plugin (connect, extract, load, disconnect, validate, transform) *)
(* is one step whose outcome, normal return or raised error, is chosen by  *)
(* the environment.  The variable h is a history variable: it records what   *)
(* the run called and with what, and no action reads it to decide what to  *)
(* do.                                                                     *)
(***************************************************************************)
EXTENDS Integers, Sequences, FiniteSets, TLC

\* ---------------------------------------------------------------- bounds
MaxAttempts == 4   \* largest settings.retry.max_attempts drawn
MaxBackoff  == 1   \* largest settings.retry.backoff_seconds drawn
MaxVal      == 2   \* largest value of a dataset cell
MaxRows     == 2   \* largest number of extracted rows
MaxSteps    == 2   \* largest number of declared transform steps
MaxPayload  == 1   \* largest payload of a value handed to save_cursor
MaxKeys     == 2   \* number of keys the decorators are applied with
MaxRegistered == 3 \* largest number of classes registered

\* ------------------------------------------------------------- constants
\* Python's None: "no cursor", "key absent", "initial_value not set".
None == 0 - 1

PipelineNames == {"p", "q"}

\* Errors a plugin hook may raise (any subclass of Exception).
Errs == {"E1", "E2"}

\* Keys registered by the @register_* decorators when the subpackages are
\* imported (engine.py:21-23).  "nope" is a key nothing registers.
ExtractorKeys   == {"rest_api", "json_file", "playwright_scraper", "alpha_vantage"}
TransformerKeys == {"pass_through", "data_cleaning", "pydantic_validation",
                    "technical_indicators"}
LoaderKeys      == {"json_local", "sql_database"}
UnknownKey      == "nope"

\* ------------------------------------------------------ step configuration
\* A configuration map.  top holds the scalar top-level entries, None for
\* an absent key; hasQp tells whether the key "query_params" is present and
\* qp is the nested map it holds.
TopKeys == {"endpoint", "since_id"}
QpKeys  == {"page", "since_id"}

EmptyTop == [k \in TopKeys |-> None]
EmptyQp  == [k \in QpKeys |-> None]
EmptyMap == [top |-> EmptyTop, hasQp |-> FALSE, qp |-> EmptyQp]

\* The extract steps drawn: config_file only; config_file and inline_config
\* both holding query_params.  ExtractConfig._require_some_config rejects a
\* step with neither.
ExtractSteps ==
  { [hasFile |-> TRUE, config_file |-> [EmptyMap EXCEPT !.top["endpoint"] = 1],
     hasInline |-> FALSE, inline_config |-> EmptyMap],
    [hasFile |-> TRUE,
     config_file |-> [top |-> [EmptyTop EXCEPT !["endpoint"] = 1],
                      hasQp |-> TRUE, qp |-> [EmptyQp EXCEPT !["page"] = 1]],
     hasInline |-> TRUE,
     inline_config |-> [top |-> [EmptyTop EXCEPT !["endpoint"] = 2],
                        hasQp |-> TRUE, qp |-> [EmptyQp EXCEPT !["page"] = 2]]] }

\* A step that names neither a config_file nor an inline_config; only a
\* transform step may (models.py:49-52).
NoStepConfig ==
  [hasFile |-> FALSE, config_file |-> EmptyMap,
   hasInline |-> FALSE, inline_config |-> EmptyMap]

\* config_file {endpoint: 1, since_id: 2} with inline_config {since_id: 3}.
OverlayStep ==
  [hasFile |-> TRUE,
   config_file |-> [EmptyMap EXCEPT !.top = [EmptyTop EXCEPT !["endpoint"] = 1,
                                                             !["since_id"] = 2]],
   hasInline |-> TRUE,
   inline_config |-> [EmptyMap EXCEPT !.top["since_id"] = 3]]

\* inline_config only.
InlineOnlyStep ==
  [hasFile |-> FALSE, config_file |-> EmptyMap,
   hasInline |-> TRUE, inline_config |-> [EmptyMap EXCEPT !.top["endpoint"] = 2]]

\* The step configurations drawn for the extract, transform and load steps
\* of the definitions that vary them.
MergeSteps == ExtractSteps \cup {OverlayStep, InlineOnlyStep}

\* Faulty variant of DictUpdate: a key merged already holds keeps its value.
DictUpdateKeepsFirst(merged, other) ==
  [top   |-> [k \in TopKeys |-> IF merged.top[k] # None THEN merged.top[k]
                                ELSE other.top[k]],
   hasQp |-> merged.hasQp \/ other.hasQp,
   qp    |-> IF merged.hasQp THEN merged.qp ELSE other.qp]

\* dict.update: keys of other overwrite keys of merged, other keys stay.
\* The value under "query_params" is copied as a whole (a shallow copy).
DictUpdate(merged, other) ==
  [top   |-> [k \in TopKeys |-> IF other.top[k] # None THEN other.top[k]
                                ELSE merged.top[k]],
   hasQp |-> merged.hasQp \/ other.hasQp,
   qp    |-> IF other.hasQp THEN other.qp ELSE merged.qp]

\* PipelineEngine._resolve_step_config
resolve_step_config(step) ==
  LET m0 == EmptyMap
      m1 == IF step.hasFile THEN DictUpdate(m0, step.config_file) ELSE m0
      m2 == IF step.hasInline THEN DictUpdate(m1, step.inline_config) ELSE m1
  IN m2

\* ------------------------------------------------------------- datasets
\* A dataset: hasField tells whether the column cursor_field is present;
\* rows holds, per row, the value of that column (of another column when
\* cursor_field is absent).
Values == 1..MaxVal

RECURSIVE SeqsUpTo(_)
SeqsUpTo(n) ==
  IF n = 0 THEN {<<>>}
  ELSE LET prev == SeqsUpTo(n - 1)
       IN prev \cup {Append(s, v) : s \in {t \in prev : Len(t) = n - 1}, v \in Values}

Datasets == [hasField : BOOLEAN, rows : SeqsUpTo(MaxRows)]

RECURSIVE SeqMax(_)
SeqMax(s) ==
  IF Len(s) = 1 THEN s[1]
  ELSE LET m == SeqMax(Tail(s)) IN IF s[1] >= m THEN s[1] ELSE m

\* df[cursor_field].max()
ColumnMax(d) == SeqMax(d.rows)

\* ------------------------------------------------------------ transforms
RECURSIVE DropDuplicates(_)
DropDuplicates(s) ==
  IF s = <<>> THEN <<>>
  ELSE LET init == DropDuplicates(SubSeq(s, 1, Len(s) - 1))
           last == s[Len(s)]
       IN IF \E i \in 1..Len(init) : init[i] = last THEN init
          ELSE Append(init, last)

\* The transform steps drawn: the data_cleaning plugin with the rule
\* deduplicate, the same plugin with the rule cast_types (to bool), and a
\* step whose key nothing registers.
TransformSteps ==
  { [name |-> "data_cleaning", rule |-> "deduplicate", config |-> NoStepConfig],
    [name |-> "data_cleaning", rule |-> "cast_types",  config |-> NoStepConfig],
    [name |-> UnknownKey,      rule |-> "deduplicate", config |-> NoStepConfig] }

\* DataCleaningTransformer.transform(df) of a step: returns a new dataset.
\*   deduplicate  df.drop_duplicates(): the first occurrence of a row stays
\*   cast_types   astype(bool): every value other than 0 becomes True, 1
TransformFn(st, d) ==
  IF st.rule = "deduplicate" THEN [d EXCEPT !.rows = DropDuplicates(d.rows)]
  ELSE [d EXCEPT !.rows = [i \in 1..Len(d.rows) |->
                             IF d.rows[i] # 0 THEN 1 ELSE 0]]

\* ------------------------------------------------------------ state store
\* Cursor values.  A value is a scalar of one of six kinds, numbered from 0,
\* carrying a payload in 0..MaxVal; it is encoded as kind * Base + payload so
\* that the Python ints the datasets hold are their own encoding.  The
\* payload n of a float kind stands for n + 0.5, of a string kind for the
\* n-th string, of a timestamp for the n-th instant.
ScalarTypes == <<"int", "float", "str", "np_int", "np_float", "timestamp">>

Base == MaxVal + 1

TypeIndex(t) == CHOOSE i \in 1..Len(ScalarTypes) : ScalarTypes[i] = t

Scalar(t, n) == (TypeIndex(t) - 1) * Base + n

TypeOf(v) == ScalarTypes[(v \div Base) + 1]

Payload(v) == v % Base

Scalars == {Scalar(ScalarTypes[i], n) : i \in 1..Len(ScalarTypes), n \in 0..MaxVal}

\* The values a JSON document holds: int, float and string.
JsonScalars == {v \in Scalars : TypeOf(v) \in {"int", "float", "str"}}

\* Python's ==: numbers compare by value whatever their wrapper, a string
\* equals only the same string, a timestamp only the same timestamp (None
\* equals only None).
PyEq(a, b) ==
  IF a = None \/ b = None THEN a = b
  ELSE LET Class(v) == CASE TypeOf(v) \in {"int", "np_int"}     -> "integer"
                         [] TypeOf(v) \in {"float", "np_float"} -> "real"
                         [] OTHER                               -> TypeOf(v)
       IN Class(a) = Class(b) /\ Payload(a) = Payload(b)

\* The state file: missing; zero bytes; bytes that are not UTF-8 text; a
\* path read_text cannot read (a directory, no permission); text that is
\* not JSON; truncated JSON text; JSON that is not an object; or a JSON
\* object mapping pipeline names to cursors (None: the name has no entry).
NoEntries == [n \in PipelineNames |-> None]

MissingFile     == [kind |-> "missing", data |-> NoEntries]
EmptyFile       == [kind |-> "empty", data |-> NoEntries]
CorruptFile     == [kind |-> "corrupt", data |-> NoEntries]
UndecodableFile == [kind |-> "undecodable", data |-> NoEntries]
UnreadableFile  == [kind |-> "unreadable", data |-> NoEntries]
NonMappingFile  == [kind |-> "nonmapping", data |-> NoEntries]

\* What is on disk after part of the text of mapping d has been written.
TruncatedFile(d) == [kind |-> "truncated", data |-> d]

\* StateManager._read when it returns: {} unless the file is a JSON object.
\* json.loads gives back the ints, floats and strings the text spells.
read(f) == IF f.kind = "valid" THEN f.data ELSE NoEntries

\* StateManager._read when it raises: read_text raises UnicodeDecodeError
\* on bytes that are not UTF-8, which is neither a JSONDecodeError nor an
\* OSError, so the except clause of line 75 lets it through.
read_error(f) == IF f.kind = "undecodable" THEN "UnicodeDecodeError" ELSE "none"

\* StateManager.get_cursor
get_cursor(f, pipeline_id) == read(f)[pipeline_id]

\* StateManager._to_native: a numpy scalar has .item(), which gives the
\* Python int or float of the same value; every other value, a
\* pandas.Timestamp included, has no .item() and is returned as it is.
to_native(v) ==
  CASE v = None               -> None
    [] TypeOf(v) = "np_int"   -> Scalar("int", Payload(v))
    [] TypeOf(v) = "np_float" -> Scalar("float", Payload(v))
    [] OTHER                  -> v

\* json.dump(state, fh, indent=2, default=str) on one value: int, float
\* (numpy.float64 is a float) and str are written as they are, any other
\* object as the string str() gives for it.
JsonValue(v) ==
  CASE v = None                                  -> None
    [] TypeOf(v) \in {"int", "float", "str"}     -> v
    [] TypeOf(v) = "np_float"                    -> Scalar("float", Payload(v))
    [] OTHER                                     -> Scalar("str", Payload(v))

\* The complete document json.dump writes for the mapping state.
json_dump(state) ==
  [kind |-> "valid", data |-> [n \in PipelineNames |-> JsonValue(state[n])]]

\* StateManager.save_cursor, when the read, the write and the rename
\* succeed.
save_cursor(f, pipeline_id, v) ==
  json_dump([read(f) EXCEPT ![pipeline_id] = to_native(v)])

\* ------------------------------------------------------------------ inputs
\* settings.retry: RetrySettings declares max_attempts: int and
\* backoff_seconds: float with no lower bound, so 0 attempts and a negative
\* backoff pass PipelineConfig.model_validate.
RetryPolicies == [max_attempts : 0..MaxAttempts, backoff_seconds : (0 - 1)..MaxBackoff]

\* pipeline.incremental: absent, or present with initial_value None or 0.
CursorParam == "since_id"
IncrementalPolicies ==
  { [present |-> FALSE, cursor_param |-> CursorParam, initial_value |-> None],
    [present |-> TRUE,  cursor_param |-> CursorParam, initial_value |-> None],
    [present |-> TRUE,  cursor_param |-> CursorParam, initial_value |-> 0] }

RECURSIVE StepSeqs(_)
StepSeqs(n) ==
  IF n = 0 THEN {<<>>}
  ELSE LET prev == StepSeqs(n - 1)
       IN prev \cup {Append(s, st) : s \in {t \in prev : Len(t) = n - 1},
                                     st \in TransformSteps}

\* The definitions drawn.  BaseDefinition is an incremental pipeline with
\* no transform step and a single attempt; each family below varies some of
\* its parts over all their values.
ExtractFileOnly == CHOOSE es \in ExtractSteps : ~es.hasInline
IncrementalNoInitial ==
  CHOOSE ip \in IncrementalPolicies : ip.present /\ ip.initial_value = None

BaseDefinition ==
  [name        |-> "p",
   incremental |-> IncrementalNoInitial,
   source      |-> "json_file",
   extract     |-> ExtractFileOnly,
   transform   |-> <<>>,
   destination |-> "json_local",
   load        |-> ExtractFileOnly,
   retry       |-> [max_attempts |-> 1, backoff_seconds |-> 0],
   on_failure  |-> "abort"]

\* every retry policy, on a pipeline that is not incremental
RetryDefinitions ==
  {[BaseDefinition EXCEPT !.retry = r, !.incremental = ip] :
     r \in RetryPolicies, ip \in {jp \in IncrementalPolicies : ~jp.present}}

\* every transform chain, unknown keys included
TransformDefinitions == {[BaseDefinition EXCEPT !.transform = t] : t \in StepSeqs(MaxSteps)}

\* every incremental policy with every extract step, under two attempts
CursorDefinitions ==
  {[BaseDefinition EXCEPT !.incremental = ip, !.extract = es,
                          !.retry = [max_attempts |-> 2, backoff_seconds |-> 0]] :
     ip \in IncrementalPolicies, es \in ExtractSteps}

\* an unknown source or destination key
UnknownKeyDefinitions ==
  {[BaseDefinition EXCEPT !.source = k] : k \in {UnknownKey}}
  \cup {[BaseDefinition EXCEPT !.destination = k] : k \in {UnknownKey}}

\* every step configuration, given to the extract step, to one transform
\* step and to the load step
MergeDefinitions ==
  {[BaseDefinition EXCEPT
      !.extract = sc, !.load = sc,
      !.transform = <<[name |-> "data_cleaning", rule |-> "deduplicate",
                       config |-> sc]>>] : sc \in MergeSteps}

\* settings.on_failure (models.py:30): every value of the Literal, on a
\* pipeline with one transform step and two attempts
OnFailureValues == {"abort", "skip", "warn"}
OnFailureDefinitions ==
  {[BaseDefinition EXCEPT
      !.on_failure = f,
      !.retry = [max_attempts |-> 2, backoff_seconds |-> 0],
      !.transform = <<[name |-> "data_cleaning", rule |-> "deduplicate",
                       config |-> NoStepConfig]>>] : f \in OnFailureValues}

Definitions ==
  RetryDefinitions \cup TransformDefinitions \cup CursorDefinitions
  \cup UnknownKeyDefinitions \cup MergeDefinitions \cup OnFailureDefinitions

\* A state file another pipeline has written its cursor to.
OtherPipelineFile == [kind |-> "valid", data |-> [NoEntries EXCEPT !["q"] = 1]]

\* What the source of a definition may hold when extract() is called: any
\* dataset for the definitions that vary the steps, a dataset of at most one
\* row for the others.
SourceData(d) ==
  IF d \in TransformDefinitions \cup MergeDefinitions THEN Datasets
  ELSE {ds \in Datasets : Len(ds.rows) <= 1}

\* The state files a behaviour may start from: any of them for the
\* definitions that vary the incremental policy, none for the others.
InitialFiles(d) ==
  IF d \in CursorDefinitions
    THEN {MissingFile, CorruptFile, UndecodableFile, OtherPipelineFile}
  ELSE {MissingFile}

\* ---------------------------------------------------------------- registry
\* Every key a registry dictionary may hold, in the order sorted() gives.
KeyOrder == <<"alpha_vantage", "data_cleaning", "json_file", "json_local", "nope",
              "pass_through", "playwright_scraper", "pydantic_validation",
              "rest_api", "sql_database", "technical_indicators">>

AllKeys == {KeyOrder[i] : i \in 1..Len(KeyOrder)}

Categories == {"extractor", "transformer", "loader"}

\* Classes a decorator may be applied to.
Classes == {"ClassA", "ClassB"}

\* registry.py:13-15: the three dictionaries as the module creates them;
\* "none" marks a key the dictionary does not hold.
EmptyRegistry == [c \in Categories |-> [k \in AllKeys |-> "none"]]

\* The dictionaries once engine.py:21-23 has imported the plugin packages.
Bootstrapped ==
  [c \in Categories |->
     [k \in AllKeys |->
        IF \/ c = "extractor" /\ k \in ExtractorKeys
           \/ c = "transformer" /\ k \in TransformerKeys
           \/ c = "loader" /\ k \in LoaderKeys
          THEN "ClassA" ELSE "none"]]

\* sorted(_x_registry): the keys the dictionary holds, in sorted order.
Registered(reg, c) == {k \in AllKeys : reg[c][k] # "none"}

sorted(S) == SelectSeq(KeyOrder, LAMBDA k : k \in S)

\* Before any call of the registry.
NoCall ==
  [op        |-> "none",        \* "register" or "get"
   category  |-> "extractor",   \* which of the three functions was called
   name      |-> "nope",        \* argument name
   cls       |-> "none",        \* register: the class decorated
   ret       |-> "none",        \* the class returned
   err       |-> "none",        \* the exception raised
   available |-> <<>>,          \* get: the keys the KeyError message lists
   before    |-> EmptyRegistry] \* history: the dictionaries at the call

\* ------------------------------------------------------------ store calls
\* Processes that may call the StateManager of one state file.
Procs == {1, 2}

\* A process that is not inside a StateManager call.
IdleCall ==
  [pc     |-> "idle",       \* position inside get_cursor / save_cursor
   op     |-> "none",       \* "get" or "save"
   id     |-> "p",          \* argument pipeline_id
   value  |-> None,         \* argument cursor_value
   state  |-> NoEntries,    \* save_cursor: local variable state
   tmp    |-> MissingFile,  \* the file at tmp_path
   seen   |-> MissingFile,  \* the state file as _read found it
   err    |-> "none",       \* exception in flight or raised
   ret    |-> None,         \* value returned by get_cursor
   before |-> MissingFile]  \* history: the state file when the call began

\* ------------------------------------------------------------------- state
VARIABLES
  definition,    \* the pipeline definition document on disk
  file,          \* content of settings.state_file
  pc,            \* position of the run
  config,        \* the validated PipelineConfig of the run
  full_refresh,  \* run's keyword argument
  cursor_value,  \* run: cursor resolved for extraction, None when absent
  new_cursor,    \* run: cursor to commit, None when not computed
  df,            \* run: the working dataset
  step,          \* run: index of the transform step being executed
  stage,         \* which plugin _with_retry is driving: "extract" or "load"
  attempt,       \* _with_retry: loop variable
  last_exc,      \* _with_retry: last exception caught, "none" for None
  pending,       \* exception in flight inside the with block, "none" if none
  result,        \* value returned by extractor.extract()
  raised,        \* the error run() ended with, "none" when none
  h,             \* history of the calls made by the current run
  sm,            \* the save_cursor / get_cursor call of each process
  saved,         \* per pipeline, the value of its last save_cursor that returned
  registry,      \* registry.py: the three module-level dictionaries
  reg_call       \* the last call of a register_* decorator or of a get_*

\* What a run of the engine reads and writes besides the state file.
engineVars == <<definition, pc, config, full_refresh, cursor_value, new_cursor, df, step,
                stage, attempt, last_exc, pending, result, raised, h>>

vars == <<definition, file, pc, config, full_refresh, cursor_value, new_cursor, df, step,
          stage, attempt, last_exc, pending, result, raised, h, sm, saved, registry,
          reg_call>>

EmptyDs == [hasField |-> FALSE, rows |-> <<>>]

\* The value of config before the first run has parsed a definition.
IdleConfig ==
  [name        |-> "p",
   incremental |-> [present |-> FALSE, cursor_param |-> CursorParam,
                    initial_value |-> None],
   source      |-> "json_file",
   extract     |-> [hasFile |-> FALSE, config_file |-> EmptyMap,
                    hasInline |-> FALSE, inline_config |-> EmptyMap],
   transform   |-> <<>>,
   destination |-> "json_local",
   load        |-> NoStepConfig,
   retry       |-> [max_attempts |-> 0, backoff_seconds |-> 0],
   on_failure  |-> "abort"]

\* The history of a run that has just started from state file f with
\* definition c.
NewHistory(f, c) ==
  [fileBefore   |-> f,          \* state file when run() was called
   configBefore |-> c,          \* the definition as parsed
   reads        |-> 0,          \* calls of StateManager.get_cursor
   saves        |-> 0,          \* calls of StateManager.save_cursor
   srcBuilt     |-> FALSE,      \* extractor_cls(step_config) was called
   srcConfig    |-> EmptyMap,   \* the step_config it was called with
   retry        |-> "none",     \* _with_retry: none, running, returned, raised
   calls        |-> 0,          \* calls of func() in this _with_retry
   sleeps       |-> <<>>,       \* arguments of time.sleep in this _with_retry
   failures     |-> 0,          \* calls of func() that raised
   firstError   |-> "none",     \* exception the first failed func() ended with
   lastError    |-> "none",     \* exception the latest failed func() ended with
   attConnected |-> FALSE,      \* this func(): connect() returned
   attOperated  |-> FALSE,      \* this func(): extract()/load() was called
   attDisc      |-> 0,          \* this func(): calls of disconnect()
   extracted    |-> FALSE,      \* _run_extract returned
   extractedDs  |-> EmptyDs,    \* what it returned
   loads        |-> 0,          \* calls of loader.load
   loadsOk      |-> 0,          \* calls of loader.load that returned
   discFailed   |-> 0,          \* this _with_retry: disconnect() raised after
                                \* extract()/load() had returned
   loadInput    |-> EmptyDs,    \* argument of the last loader.load call
   loadDone     |-> FALSE,      \* _run_load returned
   trace        |-> <<>>,       \* validate/transform calls: <<hook, step, input>>
   stepConfigs  |-> <<>>,       \* the step_config each transformer was built with
   dstBuilt     |-> FALSE,      \* loader_cls(step_config) was called
   dstConfig    |-> EmptyMap]   \* the step_config it was called with

Init ==
  /\ definition \in Definitions
  /\ file \in InitialFiles(definition)
  /\ pc = "idle"
  /\ config = IdleConfig
  /\ full_refresh = FALSE
  /\ cursor_value = None
  /\ new_cursor = None
  /\ df = EmptyDs
  /\ step = 0
  /\ stage = "none"
  /\ attempt = 0
  /\ last_exc = "none"
  /\ pending = "none"
  /\ result = EmptyDs
  /\ raised = "none"
  /\ h = NewHistory(file, IdleConfig)
  /\ sm = [i \in Procs |-> IdleCall]
  /\ saved = NoEntries
  /\ registry = Bootstrapped
  /\ reg_call = NoCall

\* ------------------------------------------------------------------ run()
\* Faulty variant of ResolveCursor: the stored cursor is never read.
ResolveCursorInitialOnly(f, c, fr) ==
  IF ~c.incremental.present THEN None
  ELSE c.incremental.initial_value

\* Faulty variant of ResolveCursor: full_refresh is ignored.
ResolveCursorNoRefresh(f, c, fr) ==
  IF ~c.incremental.present THEN None
  ELSE IF get_cursor(f, c.name) = None THEN c.incremental.initial_value
  ELSE get_cursor(f, c.name)

\* engine.py:63-75: the cursor handed to extraction.
ResolveCursor(f, c, fr) ==
  IF ~c.incremental.present THEN None
  ELSE IF fr THEN c.incremental.initial_value
  ELSE IF get_cursor(f, c.name) = None THEN c.incremental.initial_value
  ELSE get_cursor(f, c.name)

\* run() ends by raising e.
Raise(e) ==
  /\ raised' = e
  /\ pc' = "failed"

\* run(full_refresh=fr) is called: the definition is parsed and the cursor
\* is resolved (engine.py:52-81).  An error of get_cursor leaves run().
Run(c, fr) ==
  /\ pc = "idle"
  /\ config' = c
  /\ full_refresh' = fr
  /\ cursor_value' = ResolveCursor(file, c, fr)
  /\ new_cursor' = None
  /\ df' = EmptyDs
  /\ step' = 0
  /\ stage' = "none"
  /\ attempt' = 0
  /\ last_exc' = "none"
  /\ pending' = "none"
  /\ result' = EmptyDs
  /\ h' = [NewHistory(file, c) EXCEPT
             !.reads = IF c.incremental.present /\ ~fr THEN 1 ELSE 0]
  /\ IF c.incremental.present /\ ~fr /\ read_error(file) # "none"
       THEN Raise(read_error(file))
       ELSE /\ raised' = "none"
            /\ pc' = "run_extract"
  /\ UNCHANGED <<sm, saved, registry, reg_call, definition, file>>

\* _with_retry is entered (engine.py:204-205): with max_attempts < 1 the loop
\* body never runs and line 218 executes "raise None", a TypeError.
EnterWithRetry(s) ==
  /\ stage' = s
  /\ attempt' = 1
  /\ last_exc' = "none"
  /\ pending' = "none"
  /\ IF config.retry.max_attempts >= 1
       THEN /\ pc' = "enter"
            /\ raised' = raised
       ELSE Raise("TypeError")

\* engine.py:159-162: step_config.setdefault("query_params", {})[cursor_param]
\* = cursor_value.
InjectCursor(m, c, cv) ==
  IF c.incremental.present /\ cv # None
    THEN [m EXCEPT !.hasQp = TRUE, !.qp[c.incremental.cursor_param] = cv]
    ELSE m

\* _run_extract up to the call of _with_retry (engine.py:155-170).  The dict
\* under "query_params" of the merged configuration is the very dict of
\* inline_config when inline_config has that key, so the injection writes
\* into the definition as well.
RunExtract ==
  /\ pc = "run_extract"
  /\ LET merged      == resolve_step_config(config.extract)
         step_config == InjectCursor(merged, config, cursor_value)
         aliased     == config.extract.hasInline /\ config.extract.inline_config.hasQp
     IN /\ config' = IF aliased
                       THEN [config EXCEPT !.extract.inline_config.qp = step_config.qp]
                       ELSE config
        /\ IF config.source \in ExtractorKeys
             THEN /\ h' = [h EXCEPT !.srcBuilt = TRUE, !.srcConfig = step_config,
                                    !.retry = IF config.retry.max_attempts >= 1
                                              THEN "running" ELSE "raised"]
                  /\ EnterWithRetry("extract")
             ELSE /\ Raise("KeyError")
                  /\ UNCHANGED <<h, stage, attempt, last_exc, pending>>
  /\ UNCHANGED <<sm, saved, registry, reg_call, definition, file, full_refresh, cursor_value, new_cursor, df, step, result>>

\* Faulty variant of Enter: connect() is called outside the retried
\* function, so its error leaves run() without a retry.
EnterConnectNotRetried ==
  /\ pc = "enter"
  /\ \/ /\ pending' = "none"
        /\ pc' = "operate"
        /\ raised' = raised
        /\ h' = [h EXCEPT !.calls = @ + 1, !.attConnected = TRUE,
                          !.attOperated = FALSE, !.attDisc = 0]
     \/ \E e \in Errs :
          /\ pending' = e
          /\ Raise(e)
          /\ h' = [h EXCEPT !.calls = @ + 1, !.attConnected = FALSE,
                            !.attOperated = FALSE, !.attDisc = 0]
  /\ UNCHANGED <<sm, saved, registry, reg_call, definition, file, config, full_refresh, cursor_value, new_cursor, df, step,
                 stage, attempt, last_exc, result>>

\* func() is called: "with plugin:" runs __enter__, which calls connect()
\* (engine.py:193,198; base.py __enter__).  When connect() raises, the with
\* block is never entered and __exit__ is not called.
Enter ==
  /\ pc = "enter"
  /\ \/ /\ pending' = "none"
        /\ pc' = "operate"
        /\ h' = [h EXCEPT !.calls = @ + 1, !.attConnected = TRUE,
                          !.attOperated = FALSE, !.attDisc = 0]
     \/ \E e \in Errs :
          /\ pending' = e
          /\ pc' = "except"
          /\ h' = [h EXCEPT !.calls = @ + 1, !.attConnected = FALSE,
                            !.attOperated = FALSE, !.attDisc = 0]
  /\ UNCHANGED <<sm, saved, registry, reg_call, definition, file, config, full_refresh, cursor_value, new_cursor, df, step,
                 stage, attempt, last_exc, result, raised>>

\* Faulty variant of Operate: no guaranteed release, an exception of the
\* body leaves func() without disconnect() being called.
OperateNoRelease ==
  /\ pc = "operate"
  /\ IF stage = "extract"
       THEN \/ \E d \in SourceData(definition) :
                 /\ result' = d
                 /\ pending' = "none"
                 /\ pc' = "exit"
                 /\ h' = [h EXCEPT !.attOperated = TRUE]
            \/ \E e \in Errs :
                 /\ pending' = e
                 /\ pc' = "except"
                 /\ h' = [h EXCEPT !.attOperated = TRUE]
                 /\ UNCHANGED result
       ELSE \/ /\ pending' = "none"
               /\ pc' = "exit"
               /\ h' = [h EXCEPT !.attOperated = TRUE, !.loads = @ + 1,
                                 !.loadsOk = @ + 1, !.loadInput = df]
               /\ UNCHANGED result
            \/ \E e \in Errs :
                 /\ pending' = e
                 /\ pc' = "except"
                 /\ h' = [h EXCEPT !.attOperated = TRUE, !.loads = @ + 1,
                                   !.loadInput = df]
                 /\ UNCHANGED result
  /\ UNCHANGED <<sm, saved, registry, reg_call, definition, file, config, full_refresh, cursor_value, new_cursor, df, step,
                 stage, attempt, last_exc, raised>>

\* The body of the with block: extractor.extract() or loader.load(df)
\* (engine.py:194,199).  Whether it returns or raises, __exit__ runs next.
Operate ==
  /\ pc = "operate"
  /\ pc' = "exit"
  /\ IF stage = "extract"
       THEN \/ \E d \in SourceData(definition) :
                 /\ result' = d
                 /\ pending' = "none"
                 /\ h' = [h EXCEPT !.attOperated = TRUE]
            \/ \E e \in Errs :
                 /\ pending' = e
                 /\ h' = [h EXCEPT !.attOperated = TRUE]
                 /\ UNCHANGED result
       ELSE \/ /\ pending' = "none"
               /\ h' = [h EXCEPT !.attOperated = TRUE, !.loads = @ + 1,
                                 !.loadsOk = @ + 1, !.loadInput = df]
               /\ UNCHANGED result
            \/ \E e \in Errs :
                 /\ pending' = e
                 /\ h' = [h EXCEPT !.attOperated = TRUE, !.loads = @ + 1,
                                   !.loadInput = df]
                 /\ UNCHANGED result
  /\ UNCHANGED <<sm, saved, registry, reg_call, definition, file, config, full_refresh, cursor_value, new_cursor, df, step,
                 stage, attempt, last_exc, raised>>

\* Faulty variant of Exit: _with_retry calls func() without returning its
\* value, so the loop goes on to the next attempt after a success too.
ExitKeepsLooping ==
  /\ pc = "exit"
  /\ \/ /\ pending' = pending
        /\ IF pending = "none" /\ attempt >= config.retry.max_attempts
             THEN /\ pc' = IF stage = "extract" THEN "compute_cursor" ELSE "commit"
                  /\ attempt' = attempt
                  /\ h' = [h EXCEPT !.attDisc = @ + 1, !.retry = "returned",
                                    !.extracted = (stage = "extract") \/ @,
                                    !.extractedDs = IF stage = "extract" THEN result ELSE @,
                                    !.loadDone = (stage = "load")]
             ELSE IF pending = "none"
               THEN /\ pc' = "enter"
                    /\ attempt' = attempt + 1
                    /\ h' = [h EXCEPT !.attDisc = @ + 1]
               ELSE /\ pc' = "except"
                    /\ attempt' = attempt
                    /\ h' = [h EXCEPT !.attDisc = @ + 1]
     \/ \E e \in Errs :
          /\ pending' = e
          /\ pc' = "except"
          /\ attempt' = attempt
          /\ h' = [h EXCEPT !.attDisc = @ + 1,
                            !.discFailed = IF pending = "none" THEN @ + 1 ELSE @]
  /\ UNCHANGED <<sm, saved, registry, reg_call, definition, file, config, full_refresh, cursor_value, new_cursor, df, step,
                 stage, last_exc, result, raised>>

\* __exit__ calls disconnect() and returns None, so an exception of the body
\* propagates; an exception of disconnect() replaces it (base.py __exit__).
\* When nothing is in flight func() returns and _with_retry returns its
\* value (engine.py:207).
Exit ==
  /\ pc = "exit"
  /\ \/ /\ pending' = pending
        /\ IF pending = "none"
             THEN /\ pc' = IF stage = "extract" THEN "compute_cursor" ELSE "commit"
                  /\ h' = [h EXCEPT !.attDisc = @ + 1, !.retry = "returned",
                                    !.extracted = (stage = "extract") \/ @,
                                    !.extractedDs = IF stage = "extract" THEN result ELSE @,
                                    !.loadDone = (stage = "load")]
             ELSE /\ pc' = "except"
                  /\ h' = [h EXCEPT !.attDisc = @ + 1]
     \/ \E e \in Errs :
          /\ pending' = e
          /\ pc' = "except"
          /\ h' = [h EXCEPT !.attDisc = @ + 1,
                            !.discFailed = IF pending = "none" THEN @ + 1 ELSE @]
  /\ UNCHANGED <<sm, saved, registry, reg_call, definition, file, config, full_refresh, cursor_value, new_cursor, df, step,
                 stage, attempt, last_exc, result, raised>>

RECURSIVE Pow2(_)
Pow2(k) == IF k = 0 THEN 1 ELSE 2 * Pow2(k - 1)

\* Faulty variant of Backoff: the exponent is the attempt index.
BackoffOffByOne(retry, att) == retry.backoff_seconds * Pow2(att)

\* engine.py:211
Backoff(retry, att) == retry.backoff_seconds * Pow2(att - 1)

\* Faulty variant of CaughtExc: the first exception caught is kept.
CaughtExcFirst(prev, exc) == IF prev = "none" THEN exc ELSE prev

\* engine.py:209
CaughtExc(prev, exc) == exc

\* Faulty variant of Except: the loop is "while True" and gives up only
\* when the wait fails; the attempt counter is not compared with
\* max_attempts.
ExceptNoLimit ==
  /\ pc = "except"
  /\ last_exc' = CaughtExc(last_exc, pending)
  /\ pending' = "none"
  /\ LET wait == Backoff(config.retry, 1)
     IN IF wait >= 0
          THEN /\ attempt' = attempt
               /\ pc' = "enter"
               /\ raised' = raised
               /\ h' = [h EXCEPT !.lastError = pending]
          ELSE /\ Raise("ValueError")
               /\ attempt' = attempt
               /\ h' = [h EXCEPT !.lastError = pending, !.retry = "raised"]
  /\ UNCHANGED <<sm, saved, registry, reg_call, definition, file, config, full_refresh, cursor_value, new_cursor, df, step,
                 stage, result>>

\* The except clause of _with_retry (engine.py:208-218).  time.sleep raises
\* ValueError for a negative argument; raised inside the except clause, it
\* leaves _with_retry at once.
Except ==
  /\ pc = "except"
  /\ last_exc' = CaughtExc(last_exc, pending)
  /\ pending' = "none"
  /\ IF attempt < config.retry.max_attempts
       THEN LET wait == Backoff(config.retry, attempt)
            IN IF wait >= 0
                 THEN /\ attempt' = attempt + 1
                      /\ pc' = "enter"
                      /\ raised' = raised
                      /\ h' = [h EXCEPT !.sleeps = Append(@, wait),
                                        !.failures = @ + 1, !.lastError = pending,
                                        !.firstError = IF @ = "none" THEN pending ELSE @]
                 ELSE /\ Raise("ValueError")
                      /\ attempt' = attempt
                      /\ h' = [h EXCEPT !.sleeps = Append(@, wait),
                                        !.failures = @ + 1, !.lastError = pending,
                                        !.firstError = IF @ = "none" THEN pending ELSE @,
                                        !.retry = "raised"]
       ELSE /\ Raise(last_exc')
            /\ attempt' = attempt
            /\ h' = [h EXCEPT !.failures = @ + 1, !.lastError = pending,
                                        !.firstError = IF @ = "none" THEN pending ELSE @, !.retry = "raised"]
  /\ UNCHANGED <<sm, saved, registry, reg_call, definition, file, config, full_refresh, cursor_value, new_cursor, df, step,
                 stage, result>>

\* Faulty variant of NewCursor: with nothing to take a maximum of, the
\* cursor to commit is the initial value.
NewCursorFallsBack(c, d) ==
  IF ~c.incremental.present THEN None
  ELSE IF d.rows # <<>> /\ d.hasField THEN ColumnMax(d)
  ELSE c.incremental.initial_value

\* engine.py:95-105: the cursor to commit, None when the update is skipped.
NewCursor(c, d) ==
  IF c.incremental.present /\ d.rows # <<>> /\ d.hasField
    THEN ColumnMax(d)
    ELSE None

\* Faulty variant of ComputeCursor: the cursor is saved as soon as it is
\* computed, before the transforms and the load.
ComputeCursorSaveEarly ==
  /\ pc = "compute_cursor"
  /\ df' = result
  /\ new_cursor' = NewCursor(config, result)
  /\ file' = IF new_cursor' # None
               THEN save_cursor(file, config.name, new_cursor')
               ELSE file
  /\ step' = 1
  /\ pc' = IF config.transform = <<>> THEN "run_load" ELSE "validate"
  /\ UNCHANGED <<sm, saved, registry, reg_call, definition, config, full_refresh, cursor_value, stage, attempt,
                 last_exc, pending, result, raised, h>>

\* _run_extract has returned: df is bound and the new cursor is computed
\* before the transform chain starts (engine.py:87-105).
ComputeCursor ==
  /\ pc = "compute_cursor"
  /\ df' = result
  /\ new_cursor' = NewCursor(config, result)
  /\ step' = 1
  /\ pc' = IF config.transform = <<>> THEN "run_load" ELSE "validate"
  /\ UNCHANGED <<sm, saved, registry, reg_call, definition, file, config, full_refresh, cursor_value, stage, attempt,
                 last_exc, pending, result, raised, h>>

\* Faulty variant of Validate: a failed validate is called a second time
\* before the run gives up.
ValidateRetried ==
  /\ pc = "validate"
  /\ IF config.transform[step].name \in TransformerKeys
       THEN \/ /\ pc' = "transform"
               /\ raised' = raised
               /\ h' = [h EXCEPT !.trace = Append(@, <<"validate", step, df>>),
                         !.stepConfigs = Append(@, resolve_step_config(
                                                     config.transform[step].config))]
            \/ \E e \in Errs :
                 /\ IF h.trace # <<>> /\ h.trace[Len(h.trace)] = <<"validate", step, df>>
                      THEN Raise(e)
                      ELSE pc' = "validate" /\ raised' = raised
                 /\ h' = [h EXCEPT !.trace = Append(@, <<"validate", step, df>>),
                         !.stepConfigs = Append(@, resolve_step_config(
                                                     config.transform[step].config))]
       ELSE /\ Raise("KeyError")
            /\ UNCHANGED h
  /\ UNCHANGED <<sm, saved, registry, reg_call, definition, file, config, full_refresh, cursor_value, new_cursor, df, step,
                 stage, attempt, last_exc, pending, result>>

\* Faulty variant of Validate: under on_failure = "skip" a step whose
\* validate raised is left out and the loop goes on.
ValidateSkipsOnFailure ==
  /\ pc = "validate"
  /\ IF config.transform[step].name \in TransformerKeys
       THEN \/ /\ pc' = "transform"
               /\ raised' = raised
               /\ step' = step
               /\ h' = [h EXCEPT !.trace = Append(@, <<"validate", step, df>>),
                         !.stepConfigs = Append(@, resolve_step_config(
                                                     config.transform[step].config))]
            \/ \E e \in Errs :
                 /\ IF config.on_failure = "skip"
                      THEN /\ step' = step + 1
                           /\ pc' = IF step < Len(config.transform)
                                      THEN "validate" ELSE "run_load"
                           /\ raised' = raised
                      ELSE Raise(e) /\ step' = step
                 /\ h' = [h EXCEPT !.trace = Append(@, <<"validate", step, df>>),
                         !.stepConfigs = Append(@, resolve_step_config(
                                                     config.transform[step].config))]
       ELSE /\ Raise("KeyError")
            /\ UNCHANGED <<h, step>>
  /\ UNCHANGED <<sm, saved, registry, reg_call, definition, file, config, full_refresh, cursor_value, new_cursor, df,
                 stage, attempt, last_exc, pending, result>>

\* One iteration of the transform loop up to validate (engine.py:108-116):
\* the step's plugin is resolved and constructed and validate(df) is called.
\* An unknown key raises KeyError; an error of validate leaves run().
Validate ==
  /\ pc = "validate"
  /\ IF config.transform[step].name \in TransformerKeys
       THEN \/ /\ pc' = "transform"
               /\ raised' = raised
               /\ h' = [h EXCEPT !.trace = Append(@, <<"validate", step, df>>),
                         !.stepConfigs = Append(@, resolve_step_config(
                                                     config.transform[step].config))]
            \/ \E e \in Errs :
                 /\ Raise(e)
                 /\ h' = [h EXCEPT !.trace = Append(@, <<"validate", step, df>>),
                         !.stepConfigs = Append(@, resolve_step_config(
                                                     config.transform[step].config))]
       ELSE /\ Raise("KeyError")
            /\ UNCHANGED h
  /\ UNCHANGED <<sm, saved, registry, reg_call, definition, file, config, full_refresh, cursor_value, new_cursor, df, step,
                 stage, attempt, last_exc, pending, result>>

\* Faulty variant of Transform: the steps are taken from the end of the
\* declared list.
TransformReversed ==
  /\ pc = "transform"
  /\ \/ /\ df' = TransformFn(config.transform[Len(config.transform) + 1 - step], df)
        /\ step' = step + 1
        /\ pc' = IF step < Len(config.transform) THEN "validate" ELSE "run_load"
        /\ raised' = raised
     \/ \E e \in Errs :
          /\ Raise(e)
          /\ UNCHANGED <<df, step>>
  /\ h' = [h EXCEPT !.trace = Append(@, <<"transform", step, df>>)]
  /\ UNCHANGED <<sm, saved, registry, reg_call, definition, file, config, full_refresh, cursor_value, new_cursor,
                 stage, attempt, last_exc, pending, result>>

\* The step's transform(df) is called and its result replaces df
\* (engine.py:117); the loop goes on with the next declared step.
Transform ==
  /\ pc = "transform"
  /\ \/ /\ df' = TransformFn(config.transform[step], df)
        /\ step' = step + 1
        /\ pc' = IF step < Len(config.transform) THEN "validate" ELSE "run_load"
        /\ raised' = raised
     \/ \E e \in Errs :
          /\ Raise(e)
          /\ UNCHANGED <<df, step>>
  /\ h' = [h EXCEPT !.trace = Append(@, <<"transform", step, df>>)]
  /\ UNCHANGED <<sm, saved, registry, reg_call, definition, file, config, full_refresh, cursor_value, new_cursor,
                 stage, attempt, last_exc, pending, result>>

\* Faulty variant of RunLoad: the sink is looked up inside the retried
\* operation, so a failed lookup is followed by a backoff wait.
RunLoadRetriesLookup ==
  /\ pc = "run_load"
  /\ IF config.destination \in LoaderKeys
       THEN /\ h' = [h EXCEPT !.calls = 0, !.sleeps = <<>>, !.failures = 0,
                              !.firstError = "none", !.lastError = "none",
                              !.attConnected = FALSE, !.attOperated = FALSE,
                              !.attDisc = 0, !.discFailed = 0,
                              !.dstBuilt = TRUE,
                              !.dstConfig = resolve_step_config(config.load),
                              !.retry = IF config.retry.max_attempts >= 1
                                        THEN "running" ELSE "raised"]
            /\ EnterWithRetry("load")
       ELSE /\ Raise("KeyError")
            /\ h' = [h EXCEPT !.sleeps = Append(@, config.retry.backoff_seconds)]
            /\ UNCHANGED <<stage, attempt, last_exc, pending>>
  /\ UNCHANGED <<sm, saved, registry, reg_call, definition, file, config, full_refresh, cursor_value, new_cursor, df, step,
                 result>>

\* _run_load up to the call of _with_retry (engine.py:177-185).
RunLoad ==
  /\ pc = "run_load"
  /\ IF config.destination \in LoaderKeys
       THEN /\ h' = [h EXCEPT !.calls = 0, !.sleeps = <<>>, !.failures = 0,
                              !.firstError = "none", !.lastError = "none",
                              !.attConnected = FALSE, !.attOperated = FALSE,
                              !.attDisc = 0, !.discFailed = 0,
                              !.dstBuilt = TRUE,
                              !.dstConfig = resolve_step_config(config.load),
                              !.retry = IF config.retry.max_attempts >= 1
                                        THEN "running" ELSE "raised"]
            /\ EnterWithRetry("load")
       ELSE /\ Raise("KeyError")
            /\ UNCHANGED <<h, stage, attempt, last_exc, pending>>
  /\ UNCHANGED <<sm, saved, registry, reg_call, definition, file, config, full_refresh, cursor_value, new_cursor, df, step,
                 result>>

\* Faulty variant of Commit: the cursor saved is the maximum of the column
\* after the transforms.
CommitTransformedMax ==
  /\ pc = "commit"
  /\ IF config.incremental.present /\ new_cursor # None
       THEN /\ h' = [h EXCEPT !.saves = @ + 1]
            /\ \/ /\ file' = save_cursor(file, config.name,
                                          IF df.rows # <<>> THEN ColumnMax(df)
                                          ELSE new_cursor)
                  /\ pc' = "done"
                  /\ raised' = raised
               \/ /\ Raise("OSError")
                  /\ UNCHANGED file
       ELSE /\ pc' = "done"
            /\ UNCHANGED <<file, raised, h>>
  /\ UNCHANGED <<sm, saved, registry, reg_call, definition, config, full_refresh, cursor_value, new_cursor, df, step,
                 stage, attempt, last_exc, pending, result>>

\* Faulty variant of Commit: the state file is written by every run.
CommitUnconditional ==
  /\ pc = "commit"
  /\ h' = [h EXCEPT !.saves = @ + 1]
  /\ file' = save_cursor(file, config.name, new_cursor)
  /\ pc' = "done"
  /\ UNCHANGED <<sm, saved, registry, reg_call, definition, config, full_refresh,
                 cursor_value, new_cursor, df, step, stage, attempt, last_exc,
                 pending, result, raised>>

\* _run_load has returned (engine.py:126-130): the cursor is saved when the
\* pipeline is incremental and a new cursor was computed.  save_cursor
\* replaces the file by an atomic rename; when it raises (an error of its
\* read, or OSError) the file is left as it was and the error leaves run().
Commit ==
  /\ pc = "commit"
  /\ IF config.incremental.present /\ new_cursor # None
       THEN /\ h' = [h EXCEPT !.saves = @ + 1]
            /\ \/ /\ read_error(file) = "none"
                  /\ file' = save_cursor(file, config.name, new_cursor)
                  /\ pc' = "done"
                  /\ raised' = raised
               \/ /\ Raise(IF read_error(file) # "none" THEN read_error(file)
                           ELSE "OSError")
                  /\ UNCHANGED file
       ELSE /\ pc' = "done"
            /\ UNCHANGED <<file, raised, h>>
  /\ UNCHANGED <<sm, saved, registry, reg_call, definition, config, full_refresh, cursor_value, new_cursor, df, step,
                 stage, attempt, last_exc, pending, result>>

\* run() has returned or raised; the caller drops the engine and everything
\* local to the run.  Only the state file outlives the run.
Return ==
  /\ pc \in {"done", "failed"}
  /\ pc' = "idle"
  /\ config' = IdleConfig
  /\ full_refresh' = FALSE
  /\ cursor_value' = None
  /\ new_cursor' = None
  /\ df' = EmptyDs
  /\ step' = 0
  /\ stage' = "none"
  /\ attempt' = 0
  /\ last_exc' = "none"
  /\ pending' = "none"
  /\ result' = EmptyDs
  /\ raised' = "none"
  /\ h' = NewHistory(file, IdleConfig)
  /\ UNCHANGED <<sm, saved, registry, reg_call, definition, file>>

Next ==
  \/ \E fr \in BOOLEAN : Run(definition, fr)
  \/ RunExtract
  \/ Enter
  \/ Operate
  \/ Exit
  \/ Except
  \/ ComputeCursor
  \/ Validate
  \/ Transform
  \/ RunLoad
  \/ Commit
  \/ Return

Spec == Init /\ [][Next]_vars

\* A step of run() after its call and before its return.  run() is one
\* thread of blocking calls (engine.py:42-130): when every plugin call and
\* every time.sleep returns or raises, the step run() is at is taken.
RunStep ==
  \/ RunExtract
  \/ Enter
  \/ Operate
  \/ Exit
  \/ Except
  \/ ComputeCursor
  \/ Validate
  \/ Transform
  \/ RunLoad
  \/ Commit

\* The definitions that vary the retry policy, the plugin keys and
\* on_failure; what the datasets and the state file hold has no part in
\* whether a run ends.
FairDefinitions ==
  RetryDefinitions \cup UnknownKeyDefinitions \cup OnFailureDefinitions

FairInit == Init /\ definition \in FairDefinitions

FairSpec == FairInit /\ [][Next]_vars /\ WF_vars(RunStep)

TypeOK ==
  /\ pc \in {"idle", "run_extract", "enter", "operate", "exit", "except",
              "compute_cursor", "validate", "transform", "run_load", "commit",
              "done", "failed"}
  /\ definition \in Definitions
  /\ raised \in Errs \cup {"none", "KeyError", "TypeError", "ValueError", "OSError",
                          "UnicodeDecodeError"}
  /\ (pc = "failed") = (raised # "none")

\* ---------------------------------------------------------------- registry
\* The keys and the dictionaries the decorators and getters are called on.
RegKeys == {KeyOrder[i] : i \in 1..MaxKeys}

registryFrame == <<file, sm, saved, engineVars>>

\* Faulty variant of Register: a key already held is overwritten.
RegisterOverwrites(c, k, cls) ==
  /\ registry' = [registry EXCEPT ![c][k] = cls]
  /\ reg_call' = [NoCall EXCEPT !.op = "register", !.category = c, !.name = k,
                                !.cls = cls, !.ret = cls, !.before = registry]
  /\ UNCHANGED registryFrame

\* registry.py:22-64: register_<c>(k)(cls) raises ValueError when the
\* dictionary of category c holds k, and otherwise stores cls under k and
\* returns cls.
Register(c, k, cls) ==
  /\ IF registry[c][k] # "none"
       THEN /\ reg_call' = [NoCall EXCEPT !.op = "register", !.category = c,
                                          !.name = k, !.cls = cls,
                                          !.err = "ValueError", !.before = registry]
            /\ UNCHANGED registry
       ELSE /\ registry' = [registry EXCEPT ![c][k] = cls]
            /\ reg_call' = [NoCall EXCEPT !.op = "register", !.category = c,
                                          !.name = k, !.cls = cls, !.ret = cls,
                                          !.before = registry]
  /\ UNCHANGED registryFrame

\* Faulty variant of Get: the message lists the keys of every dictionary.
GetListsAll(c, k) ==
  /\ reg_call' =
       IF registry[c][k] # "none"
         THEN [NoCall EXCEPT !.op = "get", !.category = c, !.name = k,
                             !.ret = registry[c][k], !.before = registry]
         ELSE [NoCall EXCEPT !.op = "get", !.category = c, !.name = k,
                             !.err = "KeyError",
                             !.available =
                               sorted(UNION {Registered(registry, d) : d \in Categories}),
                             !.before = registry]
  /\ UNCHANGED <<registry, registryFrame>>

\* registry.py:71-101: get_<c>(k) returns the class stored under k in the
\* dictionary of category c, or raises KeyError with the sorted keys of
\* that dictionary in its message.
Get(c, k) ==
  /\ reg_call' =
       IF registry[c][k] # "none"
         THEN [NoCall EXCEPT !.op = "get", !.category = c, !.name = k,
                             !.ret = registry[c][k], !.before = registry]
         ELSE [NoCall EXCEPT !.op = "get", !.category = c, !.name = k,
                             !.err = "KeyError",
                             !.available = sorted(Registered(registry, c)),
                             !.before = registry]
  /\ UNCHANGED <<registry, registryFrame>>

RegistryInit ==
  /\ registry = EmptyRegistry
  /\ reg_call = NoCall
  /\ file = MissingFile
  /\ sm = [i \in Procs |-> IdleCall]
  /\ saved = NoEntries
  /\ definition = BaseDefinition
  /\ pc = "idle"
  /\ config = IdleConfig
  /\ full_refresh = FALSE
  /\ cursor_value = None
  /\ new_cursor = None
  /\ df = EmptyDs
  /\ step = 0
  /\ stage = "none"
  /\ attempt = 0
  /\ last_exc = "none"
  /\ pending = "none"
  /\ result = EmptyDs
  /\ raised = "none"
  /\ h = NewHistory(MissingFile, IdleConfig)

\* Number of entries the three dictionaries hold together.
Entries(reg) ==
  Cardinality({ck \in Categories \X AllKeys : reg[ck[1]][ck[2]] # "none"})

RegistryNext ==
  \E c \in Categories, k \in RegKeys :
    \/ /\ registry[c][k] # "none" \/ Entries(registry) < MaxRegistered
       /\ \E cls \in Classes : Register(c, k, cls)
    \/ Get(c, k)

RegistrySpec == RegistryInit /\ [][RegistryNext]_vars

\* ------------------------------------------------------------ StateManager
\* get_cursor and save_cursor called by processes that share one state
\* file.  save_cursor is a sequence of steps, one per system call that can
\* fail or after which the process can be killed; get_cursor reads the file
\* in one step.  In StoreSpec a call starts only when no other call is in
\* progress.

\* The values save_cursor is called with.
SaveValues == {v \in Scalars : Payload(v) <= MaxPayload}

\* The state files a StateManager may find.
StoreFiles ==
  {MissingFile, EmptyFile, CorruptFile, UndecodableFile, UnreadableFile,
   NonMappingFile}
  \cup {[kind |-> "valid", data |-> d] :
          d \in [PipelineNames -> {None} \cup (JsonScalars \cap SaveValues)]}

Sequential(i) == \A j \in Procs \ {i} : sm[j].pc \in {"idle", "crashed"}

storeFrame == <<registry, reg_call, engineVars>>

\* state.py:25-28: get_cursor(id) returns state.get(id), or lets the error
\* of _read through.
GetCursor(i, id) ==
  /\ sm[i].pc = "idle"
  /\ sm' = [sm EXCEPT ![i] =
              [IdleCall EXCEPT
                 !.op = "get", !.id = id, !.before = file,
                 !.pc = IF read_error(file) = "none" THEN "returned" ELSE "raised",
                 !.err = read_error(file),
                 !.ret = get_cursor(file, id)]]
  /\ UNCHANGED <<file, saved, storeFrame>>

\* save_cursor(id, v) is called.
SaveCall(i, id, v) ==
  /\ sm[i].pc = "idle"
  /\ sm' = [sm EXCEPT ![i] =
              [IdleCall EXCEPT !.op = "save", !.id = id, !.value = v,
                               !.before = file, !.pc = "read"]]
  /\ saved' = [saved EXCEPT ![id] = None]
  /\ UNCHANGED <<file, storeFrame>>

\* Faulty variant of SaveRead: the new mapping holds only the entry saved.
SaveReadFresh(i) ==
  /\ sm[i].pc = "read"
  /\ sm' = [sm EXCEPT ![i].state = [NoEntries EXCEPT ![sm[i].id] = to_native(sm[i].value)],
                       ![i].seen = file,
                       ![i].pc = "mkstemp"]
  /\ UNCHANGED <<file, saved, storeFrame>>

\* state.py:32-35: state = self._read(); state[id] = _to_native(value).
SaveRead(i) ==
  /\ sm[i].pc = "read"
  /\ IF read_error(file) # "none"
       THEN sm' = [sm EXCEPT ![i].err = read_error(file), ![i].seen = file,
                             ![i].pc = "raised"]
       ELSE sm' = [sm EXCEPT ![i].state = [read(file) EXCEPT
                                            ![sm[i].id] = to_native(sm[i].value)],
                             ![i].seen = file,
                             ![i].pc = "mkstemp"]
  /\ UNCHANGED <<file, saved, storeFrame>>

\* state.py:38-43: the parent directory is created and mkstemp creates an
\* empty file of a fresh name in it; an OSError of either leaves
\* save_cursor, no temporary file exists yet.
SaveMkstemp(i) ==
  /\ sm[i].pc = "mkstemp"
  /\ \/ sm' = [sm EXCEPT ![i].tmp = EmptyFile, ![i].pc = "dump"]
     \/ sm' = [sm EXCEPT ![i].err = "OSError", ![i].pc = "raised"]
  /\ UNCHANGED <<file, saved, storeFrame>>

\* Faulty variant of SaveWrite: the text is written to the state file
\* itself.
SaveWriteInPlace(i) ==
  /\ sm[i].pc = "dump"
  /\ sm[i].tmp.kind = "empty"
  /\ file' = TruncatedFile(json_dump(sm[i].state).data)
  /\ sm' = [sm EXCEPT ![i].tmp = TruncatedFile(json_dump(sm[i].state).data)]
  /\ UNCHANGED <<saved, storeFrame>>

\* Faulty variant of SaveWrite: the temporary file has one fixed name, so
\* the text lands in the temporary file of every call in progress.
SaveWriteSharedTmp(i) ==
  /\ sm[i].pc = "dump"
  /\ sm[i].tmp.kind = "empty"
  /\ sm' = [j \in Procs |->
              IF j = i \/ sm[j].tmp.kind # "missing"
                THEN [sm[j] EXCEPT !.tmp = TruncatedFile(json_dump(sm[i].state).data)]
                ELSE sm[j]]
  /\ UNCHANGED <<file, saved, storeFrame>>

\* state.py:45-46: json.dump has written part of the text to the temporary
\* file.
SaveWrite(i) ==
  /\ sm[i].pc = "dump"
  /\ sm[i].tmp.kind = "empty"
  /\ sm' = [sm EXCEPT ![i].tmp = TruncatedFile(json_dump(sm[i].state).data)]
  /\ UNCHANGED <<file, saved, storeFrame>>

\* state.py:45-46: json.dump has written the whole text and the with block
\* has closed the temporary file.
SaveClose(i) ==
  /\ sm[i].pc = "dump"
  /\ sm' = [sm EXCEPT ![i].tmp = json_dump(sm[i].state), ![i].pc = "replace"]
  /\ UNCHANGED <<file, saved, storeFrame>>

\* state.py:44-48: the write or the rename raises (OSError of the file
\* system, KeyboardInterrupt); the target has not been touched.
SaveFail(i) ==
  /\ sm[i].pc \in {"dump", "replace"}
  /\ \E e \in {"OSError", "KeyboardInterrupt"} :
       sm' = [sm EXCEPT ![i].err = e, ![i].pc = "cleanup"]
  /\ UNCHANGED <<file, saved, storeFrame>>

\* state.py:47: Path(tmp_path).replace(self._path) renames the temporary
\* file onto the state file in one step, and save_cursor returns.
SaveReplace(i) ==
  /\ sm[i].pc = "replace"
  /\ file' = sm[i].tmp
  /\ sm' = [sm EXCEPT ![i].tmp = MissingFile, ![i].pc = "returned"]
  /\ saved' = [saved EXCEPT ![sm[i].id] = sm[i].value]
  /\ UNCHANGED storeFrame

\* Faulty variant of SaveCleanup: the temporary file is left behind.
SaveCleanupKeepsTmp(i) ==
  /\ sm[i].pc = "cleanup"
  /\ sm' = [sm EXCEPT ![i].pc = "raised"]
  /\ UNCHANGED <<file, saved, storeFrame>>

\* state.py:48-51: the except clause unlinks the temporary file and
\* re-raises.
SaveCleanup(i) ==
  /\ sm[i].pc = "cleanup"
  /\ sm' = [sm EXCEPT ![i].tmp = MissingFile, ![i].pc = "raised"]
  /\ UNCHANGED <<file, saved, storeFrame>>

\* The process is killed inside save_cursor: nothing more of the call
\* runs, the except clause included.  What the temporary file held is
\* never read again; only that it was left behind is kept.
Crash(i) ==
  /\ sm[i].op = "save"
  /\ sm[i].pc \in {"read", "mkstemp", "dump", "replace", "cleanup"}
  /\ sm' = [sm EXCEPT ![i] =
              [IdleCall EXCEPT !.pc = "crashed",
                               !.tmp = IF sm[i].tmp.kind = "missing" THEN MissingFile
                                       ELSE TruncatedFile(NoEntries)]]
  /\ UNCHANGED <<file, saved, storeFrame>>

\* The caller has the result or the error of the call.
StoreReturn(i) ==
  /\ sm[i].pc \in {"returned", "raised"}
  /\ sm' = [sm EXCEPT ![i] = IdleCall]
  /\ UNCHANGED <<file, saved, storeFrame>>

StoreInit ==
  /\ file \in StoreFiles
  /\ sm = [i \in Procs |-> IdleCall]
  /\ saved = NoEntries
  /\ registry = Bootstrapped
  /\ reg_call = NoCall
  /\ definition = BaseDefinition
  /\ pc = "idle"
  /\ config = IdleConfig
  /\ full_refresh = FALSE
  /\ cursor_value = None
  /\ new_cursor = None
  /\ df = EmptyDs
  /\ step = 0
  /\ stage = "none"
  /\ attempt = 0
  /\ last_exc = "none"
  /\ pending = "none"
  /\ result = EmptyDs
  /\ raised = "none"
  /\ h = NewHistory(MissingFile, IdleConfig)

StoreNext ==
  \E i \in Procs :
    \/ Sequential(i) /\ \E id \in PipelineNames : GetCursor(i, id)
    \/ Sequential(i) /\ \E id \in PipelineNames, v \in SaveValues : SaveCall(i, id, v)
    \/ SaveRead(i)
    \/ SaveMkstemp(i)
    \/ SaveWrite(i)
    \/ SaveClose(i)
    \/ SaveFail(i)
    \/ SaveReplace(i)
    \/ SaveCleanup(i)
    \/ Crash(i)
    \/ StoreReturn(i)

StoreSpec == StoreInit /\ [][StoreNext]_vars

StoreTypeOK ==
  /\ file.kind \in {"missing", "empty", "corrupt", "undecodable", "unreadable",
                    "nonmapping", "truncated", "valid"}
  /\ \A i \in Procs :
       /\ sm[i].pc \in {"idle", "read", "mkstemp", "dump", "replace", "cleanup",
                         "returned", "raised", "crashed"}
       /\ sm[i].err \in {"none", "OSError", "KeyboardInterrupt", "UnicodeDecodeError"}
  /\ \A n \in PipelineNames : saved[n] \in {None} \cup SaveValues

\* ------------------------------------------------- concurrent save_cursor
\* Two processes, each with its own StateManager on the same path, call
\* save_cursor with no order between their steps: state.py takes no lock,
\* so a call may start and take any of its steps while the other call is
\* in progress.
\* Each process saves a value of its own, so that a file shows whose
\* mapping it holds.
RaceValue(i) == Scalar("int", i - 1)

RaceFiles == {MissingFile, CorruptFile, OtherPipelineFile}

\* save_cursor(id, v) is called (state.py:30) while another call may be in
\* progress.
RaceCall(i, id, v) ==
  /\ sm[i].pc = "idle"
  /\ sm' = [sm EXCEPT ![i] =
              [IdleCall EXCEPT !.op = "save", !.id = id, !.value = v, !.pc = "read"]]
  /\ UNCHANGED <<file, saved, storeFrame>>

RaceInit ==
  /\ file \in RaceFiles
  /\ sm = [i \in Procs |-> IdleCall]
  /\ saved = NoEntries
  /\ registry = Bootstrapped
  /\ reg_call = NoCall
  /\ definition = BaseDefinition
  /\ pc = "idle"
  /\ config = IdleConfig
  /\ full_refresh = FALSE
  /\ cursor_value = None
  /\ new_cursor = None
  /\ df = EmptyDs
  /\ step = 0
  /\ stage = "none"
  /\ attempt = 0
  /\ last_exc = "none"
  /\ pending = "none"
  /\ result = EmptyDs
  /\ raised = "none"
  /\ h = NewHistory(MissingFile, IdleConfig)

RaceNext ==
  \E i \in Procs :
    \/ \E id \in PipelineNames : RaceCall(i, id, RaceValue(i))
    \/ SaveRead(i)
    \/ SaveMkstemp(i)
    \/ SaveWrite(i)
    \/ SaveClose(i)
    \/ SaveFail(i)
    \/ SaveReplace(i)
    \/ SaveCleanup(i)
    \/ Crash(i)
    \/ StoreReturn(i)

RaceSpec == RaceInit /\ [][RaceNext]_vars

\* ================================================================== claims

Stored(f) == get_cursor(f, config.name)
Incremental == config.incremental.present
\* The extracted dataset allows a new cursor (engine.py:96-97).
CursorComputable == h.extracted /\ h.extractedDs.rows # <<>> /\ h.extractedDs.hasField

\* C1: the state store is saved only after the sink's load has returned in
\* the same run, and a run that ends with an error leaves the state file
\* exactly as it was when the run started.
C1_SaveOnlyAfterLoad ==
  /\ h.saves > 0 => h.loadDone /\ h.loadsOk >= 1
  /\ ~h.loadDone => file = h.fileBefore
  /\ pc = "failed" => file = h.fileBefore

\* A run failed in the load stage, retries exhausted, with a cursor computed.
C1_Witness ==
  /\ pc = "failed" /\ stage = "load" /\ raised \in Errs
  /\ Incremental /\ new_cursor # None /\ new_cursor # Stored(file)

\* C2: after a successful incremental run whose extracted dataset is not
\* empty and has cursor_field, the stored cursor is the maximum of
\* cursor_field over the dataset as extracted, and save was called once.
C2_CursorIsExtractedMax ==
  (pc = "done" /\ Incremental /\ CursorComputable)
    => /\ Stored(file) = ColumnMax(h.extractedDs)
       /\ h.saves = 1

\* A successful run whose transforms lowered the maximum of the column.
C2_Witness ==
  /\ pc = "done" /\ Incremental /\ CursorComputable
  /\ df.rows # <<>> /\ ColumnMax(df) < ColumnMax(h.extractedDs)
  /\ Stored(file) = ColumnMax(h.extractedDs)

\* The cursor an incremental run without full refresh has to use: the one
\* stored when the run started, initial_value when there was none.
ExpectedCursor ==
  IF Stored(h.fileBefore) # None THEN Stored(h.fileBefore)
  ELSE config.incremental.initial_value

\* C3 as stated: in an incremental run without full refresh the source is
\* constructed with a merged configuration that holds the cursor under the
\* key cursor_param.
C3_AsStated ==
  (h.srcBuilt /\ Incremental /\ ~full_refresh)
    => h.srcConfig.top[config.incremental.cursor_param] = ExpectedCursor

\* C3 amended: in an incremental run without full refresh the cursor is the
\* stored one, or initial_value when none is stored; when it is not None the
\* source is constructed with it under cursor_param inside the query_params
\* map of the merged configuration, whose top-level entries are the merged
\* ones; when it is None the source gets the merged configuration as is.
C3_CursorInQueryParams ==
  (h.srcBuilt /\ Incremental /\ ~full_refresh)
    => LET merged == resolve_step_config(h.configBefore.extract)
           param  == config.incremental.cursor_param
       IN /\ h.srcConfig.top = merged.top
          /\ IF ExpectedCursor # None
               THEN /\ h.srcConfig.hasQp
                    /\ h.srcConfig.qp[param] = ExpectedCursor
                    /\ \A k \in QpKeys \ {param} : h.srcConfig.qp[k] = merged.qp[k]
               ELSE h.srcConfig = merged

\* A second run constructs the source with the cursor the first one stored.
C3_Witness ==
  /\ h.srcBuilt /\ Incremental /\ ~full_refresh
  /\ Stored(h.fileBefore) = 2
  /\ config.incremental.initial_value = 0
  /\ h.srcConfig.qp[config.incremental.cursor_param] = 2

\* The cursor the source was constructed with, None when it got none.
CursorGiven ==
  IF h.srcConfig.hasQp THEN h.srcConfig.qp[config.incremental.cursor_param]
  ELSE None

\* C4: with full refresh the source gets initial_value whatever is stored,
\* and a successful run still commits the maximum of the extracted column.
C4_FullRefresh ==
  /\ (h.srcBuilt /\ Incremental /\ full_refresh)
       => CursorGiven = config.incremental.initial_value
  /\ (pc = "done" /\ Incremental /\ full_refresh /\ CursorComputable)
       => Stored(file) = ColumnMax(h.extractedDs)

\* A full refresh over a stored cursor 2 extracted from 0 and stored 1.
C4_Witness ==
  /\ pc = "done" /\ Incremental /\ full_refresh
  /\ Stored(h.fileBefore) = 2
  /\ config.incremental.initial_value = 0
  /\ CursorGiven = 0
  /\ CursorComputable /\ Stored(file) = 1

\* The number of func() calls _with_retry may make.
MaxCalls == config.retry.max_attempts

\* C5 as stated: with max_attempts = n >= 1, _with_retry that returns after
\* k - 1 failures has made k <= n calls and k - 1 waits, and _with_retry
\* that raises has made n calls and n - 1 waits; it never makes more than n
\* calls.
C5_AsStated ==
  MaxCalls >= 1 =>
    /\ h.calls <= MaxCalls
    /\ h.retry = "returned" =>
         /\ h.calls = h.failures + 1
         /\ Len(h.sleeps) = h.failures
    /\ h.retry = "raised" =>
         /\ h.calls = MaxCalls
         /\ Len(h.sleeps) = MaxCalls - 1

\* C5 for the policies with backoff_seconds >= 0: the counts of C5 hold.
C5_NonNegativeBackoff == config.retry.backoff_seconds >= 0 => C5_AsStated

\* C6: when all max_attempts >= 1 attempts have failed, run() ends with the
\* very exception the last attempt ended with.
C6_LastFailureRaised ==
  (MaxCalls >= 1 /\ h.retry = "raised" /\ h.failures = MaxCalls)
    => /\ raised = h.lastError
       /\ raised \in Errs
       /\ pc = "failed"

\* Two attempts failed with different errors and the second one surfaced.
C6_Witness ==
  /\ h.retry = "raised" /\ MaxCalls = 2 /\ h.failures = 2
  /\ h.firstError # h.lastError
  /\ raised = h.lastError

\* C7: the waits of one _with_retry start at backoff_seconds and each is
\* the double of the one before; there is one after each failed attempt
\* but the last, and a backoff of 0 gives waits of 0.
C7_WaitsDouble ==
  /\ Len(h.sleeps) <= h.failures
  /\ Len(h.sleeps) >= 1 => h.sleeps[1] = config.retry.backoff_seconds
  /\ \A i \in 1..(Len(h.sleeps) - 1) : h.sleeps[i + 1] = 2 * h.sleeps[i]
  /\ MaxCalls >= 1 => Len(h.sleeps) < MaxCalls
  /\ config.retry.backoff_seconds = 0 => \A i \in 1..Len(h.sleeps) : h.sleeps[i] = 0

\* Three attempts failed under a backoff of 1: the waits were 1, 2 and 4.
C7_Witness ==
  /\ config.retry.backoff_seconds = 1
  /\ h.sleeps = <<1, 2, 4>>

\* A call of func() has ended: _with_retry is handling its exception, or it
\* has returned and nothing was called on the plugin since.
AttemptEnded == h.calls >= 1 /\ pc \notin {"enter", "operate", "exit"}

RECURSIVE ChainOutput(_)
ChainOutput(k) ==
  IF k = 0 THEN h.extractedDs
  ELSE TransformFn(config.transform[k], ChainOutput(k - 1))

\* C9: the calls made on the transform plugins are validate and transform
\* of step 1, then of step 2, and so on, each on the output of the step
\* before it, and load is called with the output of the last step.
C9_DeclaredOrder ==
  /\ \A j \in 1..Len(h.trace) :
       LET i == (j + 1) \div 2
       IN h.trace[j] = <<IF j % 2 = 1 THEN "validate" ELSE "transform",
                         i, ChainOutput(i - 1)>>
  /\ Len(h.trace) <= 2 * Len(config.transform)
  /\ h.loads >= 1 =>
       /\ Len(h.trace) = 2 * Len(config.transform)
       /\ h.loadInput = ChainOutput(Len(config.transform))

\* Two different steps whose order matters ran and load got their output.
C9_Witness ==
  /\ h.loads >= 1 /\ Len(config.transform) = 2
  /\ h.loadInput = ChainOutput(2)
  /\ h.loadInput # TransformFn(config.transform[1],
                                TransformFn(config.transform[2], h.extractedDs))

\* The run ended in validate: the last call on a transform plugin was a
\* validate.
ValidateRaised ==
  /\ pc = "failed" /\ h.trace # <<>>
  /\ h.trace[Len(h.trace)][1] = "validate"

\* C10: when validate raises the run ends with that error; validate of that
\* step was called once, neither its transform nor any later step, nor load,
\* nor save was called, and the state file is as before the run.
C10_ValidateAborts ==
  ValidateRaised =>
    LET i == h.trace[Len(h.trace)][2]
    IN /\ raised \in Errs
       /\ Cardinality({j \in 1..Len(h.trace) :
                         h.trace[j][1] = "validate" /\ h.trace[j][2] = i}) = 1
       /\ \A j \in 1..Len(h.trace) :
            h.trace[j][2] > i \/ (h.trace[j][2] = i /\ h.trace[j][1] = "transform")
              => FALSE
       /\ h.loads = 0 /\ ~h.loadDone
       /\ h.saves = 0
       /\ file = h.fileBefore
       /\ stage = "extract" /\ h.retry = "returned"

\* The validate of the second step raised after the first step had run.
C10_Witness ==
  /\ ValidateRaised
  /\ h.trace[Len(h.trace)][2] = 2
  /\ Incremental /\ new_cursor # None



\* C17: in an incremental run whose extracted dataset has no row or no
\* cursor_field column, no cursor is computed and none is saved; the run
\* goes on to the transform chain and the load, fails only by an error of
\* those, and when it is done the state file is as it was at its start.
C17_SkippedCursorUpdate ==
  (Incremental /\ h.extracted /\ ~CursorComputable)
    => /\ new_cursor = None
       /\ h.saves = 0
       /\ file = h.fileBefore
       /\ pc = "failed" => (h.trace # <<>> \/ h.dstBuilt \/ raised = "KeyError")
       /\ pc = "done" => /\ h.loadDone /\ h.loadsOk >= 1
                         /\ Len(h.stepConfigs) = Len(config.transform)

C17_Witness ==
  /\ pc = "done" /\ Incremental /\ h.extracted
  /\ h.extractedDs.rows = <<>>
  /\ h.trace # <<>> /\ h.loadsOk = 1
  /\ Stored(file) # None

\* C18: a run of a definition without an incremental policy calls neither
\* get_cursor nor save_cursor and leaves the state file, missing or not, as
\* it was, with or without full_refresh.
C18_NoIncrementalNoState ==
  (pc # "idle" /\ ~Incremental)
    => /\ h.reads = 0
       /\ h.saves = 0
       /\ file = h.fileBefore

C18_Witness ==
  /\ pc = "done" /\ ~Incremental /\ full_refresh
  /\ h.loadsOk = 1
  /\ h.extractedDs.rows # <<>> /\ h.extractedDs.hasField
  /\ file = OtherPipelineFile

\* The overlay of st.inline_config on st.config_file, key by key: a key of
\* inline_config has the inline value, a key of config_file alone has the
\* file value, no other key is present.
OverlayTop(st, k) ==
  IF st.hasInline /\ st.inline_config.top[k] # None THEN st.inline_config.top[k]
  ELSE IF st.hasFile THEN st.config_file.top[k]
  ELSE None

OverlayHasQp(st) ==
  \/ st.hasInline /\ st.inline_config.hasQp
  \/ st.hasFile /\ st.config_file.hasQp

OverlayQp(st) ==
  IF st.hasInline /\ st.inline_config.hasQp THEN st.inline_config.qp
  ELSE IF st.hasFile /\ st.config_file.hasQp THEN st.config_file.qp
  ELSE EmptyQp

IsOverlay(st, m) ==
  /\ \A k \in TopKeys : m.top[k] = OverlayTop(st, k)
  /\ m.hasQp = OverlayHasQp(st)
  /\ m.qp = OverlayQp(st)

\* m is the overlay with cv set under query_params[cursor_param].
IsOverlayWithCursor(st, m, cv) ==
  /\ \A k \in TopKeys : m.top[k] = OverlayTop(st, k)
  /\ m.hasQp
  /\ m.qp = [OverlayQp(st) EXCEPT ![CursorParam] = cv]

TransformersBuiltWithOverlay ==
  \A k \in 1..Len(h.stepConfigs) :
    IsOverlay(h.configBefore.transform[k].config, h.stepConfigs[k])

\* C20 as stated: the extractor, every transformer and the loader are
\* constructed with the overlay of their step.
C20_AsStated ==
  /\ h.srcBuilt => IsOverlay(h.configBefore.extract, h.srcConfig)
  /\ TransformersBuiltWithOverlay
  /\ h.dstBuilt => IsOverlay(h.configBefore.load, h.dstConfig)

\* C20: every transformer and the loader are constructed with the overlay
\* of their step; the extractor is constructed with the overlay of the
\* extract step in which, when the run has a cursor, query_params[cursor_param]
\* has been set to the cursor.
C20_OverlayThenCursor ==
  /\ h.srcBuilt =>
       IF Incremental /\ cursor_value # None
         THEN IsOverlayWithCursor(h.configBefore.extract, h.srcConfig, cursor_value)
         ELSE IsOverlay(h.configBefore.extract, h.srcConfig)
  /\ TransformersBuiltWithOverlay
  /\ h.dstBuilt => IsOverlay(h.configBefore.load, h.dstConfig)

C20_Witness ==
  /\ pc = "done"
  /\ h.configBefore.extract = OverlayStep
  /\ cursor_value # None
  /\ h.srcBuilt /\ h.srcConfig.qp[CursorParam] = cursor_value
  /\ Len(h.stepConfigs) = 1
  /\ h.stepConfigs[1].top = [EmptyTop EXCEPT !["endpoint"] = 1, !["since_id"] = 3]
  /\ h.dstBuilt /\ h.dstConfig.top = [EmptyTop EXCEPT !["endpoint"] = 1, !["since_id"] = 3]

\* ------------------------------------------------- claims on the StateManager
InSave(i) == sm[i].op = "save" /\ sm[i].pc \notin {"idle", "crashed"}

\* The mapping save_cursor of process i is to install.
NewMapping(i) ==
  json_dump([read(sm[i].before) EXCEPT ![sm[i].id] = to_native(sm[i].value)])

\* C11: every step taken while save_cursor runs, the kill of the process
\* included, either leaves the state file as it is or replaces it by the
\* complete new mapping, which the temporary file already held in full; the
\* state file never holds truncated text.
C11_AtomicInstall ==
  [][file' # file =>
       \E i \in Procs :
         /\ InSave(i)
         /\ file' = NewMapping(i)
         /\ sm[i].tmp = NewMapping(i)
         /\ sm'[i].pc = "returned"]_vars

C11_Witness ==
  \E i \in Procs :
    /\ sm[i].pc = "crashed"
    /\ sm[i].tmp.kind = "truncated"
    /\ file.kind = "valid"
    /\ file.data["p"] # None

\* C12: when save_cursor has raised, its temporary file does not exist, the
\* caller has the error, and the state file is as it was when save_cursor
\* was called.
C12_FailedSaveLeavesFile ==
  \A i \in Procs :
    (sm[i].op = "save" /\ sm[i].pc = "raised")
      => /\ sm[i].tmp.kind = "missing"
         /\ sm[i].err # "none"
         /\ file = sm[i].before

C12_Witness ==
  \E i \in Procs :
    /\ sm[i].op = "save" /\ sm[i].pc = "raised"
    /\ sm[i].err = "KeyboardInterrupt"
    /\ sm[i].before.kind = "valid"
    /\ sm[i].before.data[sm[i].id] # None
    /\ ~PyEq(sm[i].before.data[sm[i].id], sm[i].value)

GetEnded(i) == sm[i].op = "get" /\ sm[i].pc \in {"returned", "raised"}

\* C13: get_cursor on a state file that is not a JSON object returns None
\* for every pipeline name, does not raise and leaves the file as it is.
C13_AsStated ==
  \A i \in Procs :
    (GetEnded(i) /\ sm[i].before.kind # "valid")
      => /\ sm[i].pc = "returned"
         /\ sm[i].ret = None
         /\ file = sm[i].before

\* C13, for state files whose bytes are UTF-8 text.
C13_DecodableFiles ==
  \A i \in Procs :
    (GetEnded(i) /\ sm[i].before.kind \notin {"valid", "undecodable"})
      => /\ sm[i].pc = "returned"
         /\ sm[i].ret = None
         /\ file = sm[i].before

\* C14: get_cursor(id) after a save_cursor(id, V) that returned gives a
\* value equal to V, whatever the state file held before and whatever was
\* saved for id earlier.
C14_AsStated ==
  \A i \in Procs :
    (GetEnded(i) /\ saved[sm[i].id] # None)
      => /\ sm[i].pc = "returned"
         /\ PyEq(sm[i].ret, saved[sm[i].id])

\* C14, for the values that are not timestamps.
C14_NumbersAndStrings ==
  \A i \in Procs :
    (GetEnded(i) /\ saved[sm[i].id] # None /\ TypeOf(saved[sm[i].id]) # "timestamp")
      => /\ sm[i].pc = "returned"
         /\ PyEq(sm[i].ret, saved[sm[i].id])

\* C19: save_cursor(p, v) that returned on a state file that was a JSON
\* object has left the entry of every other pipeline name as it was.
C19_OtherEntriesKept ==
  \A i \in Procs :
    (sm[i].op = "save" /\ sm[i].pc = "returned" /\ sm[i].before.kind = "valid")
      => \A q \in PipelineNames \ {sm[i].id} :
           get_cursor(file, q) = get_cursor(sm[i].before, q)

C19_Witness ==
  \E i \in Procs :
    /\ sm[i].op = "save" /\ sm[i].pc = "returned" /\ sm[i].id = "p"
    /\ sm[i].before.kind = "valid"
    /\ saved["q"] # None /\ saved["p"] # None
    /\ PyEq(get_cursor(file, "q"), saved["q"])
    /\ PyEq(get_cursor(file, "p"), saved["p"])
    /\ ~PyEq(get_cursor(sm[i].before, "p"), saved["p"])


\* --------------------------------------------------- claims on the registry
\* C15: a register_* call raises ValueError exactly when its dictionary
\* already holds the key; a call that raised has left the three
\* dictionaries as they were, and a call that returned has stored the class
\* under the key in its own dictionary and changed nothing else, whatever
\* the other dictionaries hold under that key.
C15_DuplicateRejected ==
  reg_call.op = "register" =>
    LET c == reg_call.category
        k == reg_call.name
    IN /\ (reg_call.err = "ValueError") = (reg_call.before[c][k] # "none")
       /\ reg_call.err \in {"none", "ValueError"}
       /\ reg_call.err # "none" => registry = reg_call.before
       /\ reg_call.err = "none" =>
            registry = [reg_call.before EXCEPT ![c][k] = reg_call.cls]

C15_Witness ==
  /\ reg_call.op = "register" /\ reg_call.err = "ValueError"
  /\ registry[reg_call.category][reg_call.name] # reg_call.cls
  /\ \E d \in Categories \ {reg_call.category} :
       registry[d][reg_call.name] \notin {"none", registry[reg_call.category][reg_call.name]}

\* C16: a get_* call leaves the dictionaries as they were; it returns the
\* class its dictionary holds under the key, or, when the dictionary does
\* not hold the key, raises KeyError listing exactly the keys of that
\* dictionary, each once.
C16_ResolveOrListKeys ==
  reg_call.op = "get" =>
    LET c == reg_call.category
        k == reg_call.name
        listed == {reg_call.available[i] : i \in 1..Len(reg_call.available)}
    IN /\ registry = reg_call.before
       /\ IF reg_call.before[c][k] # "none"
            THEN reg_call.err = "none" /\ reg_call.ret = reg_call.before[c][k]
            ELSE /\ reg_call.err = "KeyError"
                 /\ reg_call.ret = "none"
                 /\ listed = Registered(reg_call.before, c)
                 /\ Len(reg_call.available) = Cardinality(listed)

C16_Witness ==
  /\ reg_call.op = "get" /\ reg_call.err = "KeyError"
  /\ reg_call.available # <<>>
  /\ \E d \in Categories \ {reg_call.category} :
       registry[d][reg_call.name] # "none"

\* C21 as stated: every retry policy _with_retry is entered with has
\* max_attempts >= 1 and backoff_seconds >= 0, _with_retry calls the
\* operation at least once before it leaves, and the error it leaves with
\* when the attempts are used up is one the attempt raised.
C21_AsStated ==
  h.retry # "none" =>
    /\ config.retry.max_attempts >= 1
    /\ config.retry.backoff_seconds >= 0
    /\ h.retry \in {"returned", "raised"} => h.calls >= 1
    /\ h.retry = "raised" => raised \in Errs

\* C22: a run that ended with the registry's KeyError has stopped at the
\* first unknown key in the order source, transform steps, sink; the lookup
\* was followed by no wait and no second try, nothing of the plugin it named
\* was called (for the source no connect or extract, for a transform no
\* validate or transform of that step, for the sink no connect or load), and
\* the state file is as it was when the run began.
C22_UnknownKeyAborts ==
  raised = "KeyError" =>
    /\ pc = "failed"
    /\ file = h.fileBefore /\ h.saves = 0
    /\ ~h.dstBuilt /\ h.loads = 0 /\ ~h.loadDone
    /\ h.retry \in {"none", "returned"}
    /\ Len(h.sleeps) <= h.failures
    /\ IF config.source \notin ExtractorKeys
         THEN ~h.srcBuilt /\ h.calls = 0 /\ ~h.extracted /\ h.trace = <<>>
         ELSE /\ h.extracted
              /\ IF step \in 1..Len(config.transform)
                   THEN /\ config.transform[step].name \notin TransformerKeys
                        /\ \A i \in 1..Len(h.trace) : h.trace[i][2] < step
                   ELSE /\ config.destination \notin LoaderKeys
                        /\ \A k \in 1..Len(config.transform) :
                             \E i \in 1..Len(h.trace) : h.trace[i][1] = "transform" /\ h.trace[i][2] = k

\* An unknown sink ended an incremental run that had extracted and computed
\* a new cursor; the cursor was not saved.
C22_Witness ==
  /\ raised = "KeyError"
  /\ config.destination \notin LoaderKeys
  /\ Incremental /\ new_cursor # None /\ h.calls >= 1

\* An unknown key at the second transform step ended a run whose first step
\* had been applied.
C22_WitnessTransform ==
  /\ raised = "KeyError"
  /\ step = 2 /\ Len(config.transform) = 2
  /\ h.trace # <<>> /\ h.trace[Len(h.trace)][1] = "transform"

\* The validate and transform calls made so far are those of steps 1, 2, ...
\* in turn, validate before transform.
TraceInOrder ==
  \A i \in 1..Len(h.trace) :
    /\ h.trace[i][2] = (i + 1) \div 2
    /\ h.trace[i][1] = IF i % 2 = 1 THEN "validate" ELSE "transform"

\* Each stage has begun only after the stage before it was completed.
StagesInOrder ==
  /\ h.srcBuilt => h.reads = IF Incremental /\ ~full_refresh THEN 1 ELSE 0
  /\ (new_cursor # None \/ h.trace # <<>> \/ h.dstBuilt) => h.extracted
  /\ h.trace # <<>> =>
       /\ pc \notin {"run_extract", "compute_cursor"}
       /\ stage = "extract" => pc \notin {"enter", "operate", "exit", "except"}
  /\ TraceInOrder
  /\ h.dstBuilt => Len(h.trace) = 2 * Len(config.transform)
  /\ h.loadDone => h.dstBuilt
  /\ (h.saves > 0 \/ pc = "done") => h.loadDone
  /\ h.retry = "raised" => pc = "failed"
  /\ (pc = "failed") = (raised # "none")

\* C23: under every value of settings.on_failure the stages of a run begin
\* in the order cursor resolution, extraction, new-cursor computation,
\* transform chain, load, cursor commit, each after the one before it was
\* completed; once an error has left a stage the run makes no further step:
\* the next thing that happens is that run() has raised it to its caller,
\* with the state file as it was.
C23_StrictOrderAbort ==
  /\ []StagesInOrder
  /\ [][raised # "none" => (pc' = "idle" /\ file' = file)]_vars

\* Under on_failure = "skip" an error of validate ended the run before the
\* step was applied and before the sink was built.
C23_Witness ==
  /\ config.on_failure = "skip"
  /\ pc = "failed" /\ raised \in Errs
  /\ h.trace # <<>> /\ h.trace[Len(h.trace)][1] = "validate"
  /\ ~h.dstBuilt /\ new_cursor # None

\* Under on_failure = "warn" the load used up its attempts and the run ended
\* with the cursor not saved.
C23_WitnessWarn ==
  /\ config.on_failure = "warn"
  /\ pc = "failed" /\ raised \in Errs
  /\ h.dstBuilt /\ h.retry = "raised" /\ h.saves = 0 /\ new_cursor # None

\* Both processes have returned from save_cursor without error.
BothReturned == \A i \in Procs : sm[i].op = "save" /\ sm[i].pc = "returned"

\* The file save_cursor of process i installs: what _read found, with the
\* entry of the call set.
Installed(i) ==
  json_dump([read(sm[i].seen) EXCEPT ![sm[i].id] = to_native(sm[i].value)])

\* C24: when two save_cursor calls, whatever the order of their steps, have
\* both returned without error, the state file is the one installed by one
\* of them, built from what that call had read; for a different pipeline
\* name it holds what that call read, so the entry of the other call is in
\* the file only when the other call had renamed before this one read.
C24_LastRenameWins ==
  BothReturned =>
    \E i \in Procs :
      /\ file = Installed(i)
      /\ \A j \in Procs \ {i} :
           sm[j].id # sm[i].id =>
             get_cursor(file, sm[j].id) = get_cursor(sm[i].seen, sm[j].id)

\* A lost update: both calls, for different names, have returned without
\* error and the file has no entry for the name of one of them.
C24_Witness ==
  /\ BothReturned
  /\ sm[1].id # sm[2].id
  /\ \A i \in Procs : sm[i].err = "none"
  /\ \E j \in Procs : get_cursor(file, sm[j].id) = None

\* C25 as stated: while a run is in progress and when it has ended, the
\* definition holds what it held when run() was called: the extract, the
\* transform and the load step configurations, the map under query_params
\* of inline_config included.
C25_AsStated ==
  pc # "idle" =>
    /\ config.extract = h.configBefore.extract
    /\ config.transform = h.configBefore.transform
    /\ config.load = h.configBefore.load

\* C26: every run ends.  A _with_retry call makes at most max_attempts
\* calls of its operation (none when max_attempts < 1), for extract and for
\* load alike, and under FairSpec, where every plugin call and every wait
\* returns or raises, a run that has begun reaches the point where run()
\* has returned or has raised.
C26_RunTerminates ==
  /\ [](h.calls <= IF MaxCalls >= 1 THEN MaxCalls ELSE 0)
  /\ (pc # "idle") ~> (pc \in {"done", "failed"})

\* A run ended after both _with_retry calls had used more than one attempt:
\* the extract returned at its last attempt and the load failed max_attempts
\* times.
C26_Witness ==
  /\ pc = "failed" /\ stage = "load" /\ h.retry = "raised"
  /\ MaxCalls >= 2 /\ h.calls = MaxCalls /\ h.failures = MaxCalls
  /\ raised \in Errs

\* C27 as stated: within one run at most one call of load returns.
C27_AsStated == h.loadsOk <= 1

\* C27: load is called at most max_attempts times in a run; a call of load
\* that returned is followed by another call only when the disconnect()
\* that came after it raised, which made the attempt a failed one, and an
\* attempt remained; when disconnect() does not raise after a load that
\* returned, that load is the only one that returned, and once _run_load
\* has returned load is not called again.
C27_ReloadOnlyAfterDisconnectError ==
  /\ [](/\ h.loads <= IF MaxCalls >= 1 THEN MaxCalls ELSE 0
        /\ h.loadsOk <= h.loads
        /\ stage = "load" =>
             /\ h.loadsOk \in {h.discFailed, h.discFailed + 1}
             /\ h.discFailed <= h.failures + 1
             /\ h.loadDone => h.loadsOk = h.discFailed + 1
        /\ stage # "load" => h.loads = 0)
  /\ [][(h.loadDone /\ pc' # "idle") => h'.loads = h.loads]_vars

\* load returned twice in one run: after the first return disconnect()
\* raised, the attempt was retried, and the run ended successfully.
C27_Witness ==
  /\ pc = "done" /\ h.loadsOk = 2 /\ h.discFailed = 1 /\ h.failures = 1

\* C28 as stated: a successful incremental run without full refresh that
\* began with a stored cursor ends with a stored cursor not below it.
C28_AsStated ==
  (pc = "done" /\ Incremental /\ ~full_refresh
     /\ Stored(h.fileBefore) # None /\ Stored(file) # None)
    => Stored(file) >= Stored(h.fileBefore)

\* C28: a successful incremental run without full refresh that began with
\* a stored cursor was given that cursor, and it ends with a stored cursor
\* below it exactly when it extracted rows with the cursor field whose
\* maximum is below it; the cursor committed is that maximum whatever the
\* cursor read, and a run that extracted no such rows leaves the stored
\* cursor as it was.
C28_CursorFollowsExtract ==
  (pc = "done" /\ Incremental /\ ~full_refresh /\ Stored(h.fileBefore) # None) =>
    /\ cursor_value = Stored(h.fileBefore)
    /\ Stored(file) # None
    /\ (Stored(file) < cursor_value)
         = (CursorComputable /\ ColumnMax(h.extractedDs) < cursor_value)
    /\ (Stored(file) > cursor_value)
         = (CursorComputable /\ ColumnMax(h.extractedDs) > cursor_value)

\* A run that began with the stored cursor 2 extracted one row with the
\* cursor field 1 and ended with the stored cursor 1.
C28_Witness ==
  /\ pc = "done" /\ Incremental /\ ~full_refresh
  /\ Stored(h.fileBefore) = 2 /\ cursor_value = 2
  /\ Stored(file) = 1

\* C29: with the steps of two save_cursor calls in any order, a call that
\* has closed its temporary file holds in it the complete mapping it built,
\* whatever the other call wrote meanwhile; the state file changes only by
\* the rename of one call, which puts that call's complete mapping in its
\* place and touches nothing of the other call; the state file never holds
\* part of a text.
C29_OneWriterAtATime ==
  /\ [](/\ file.kind # "truncated"
        /\ \A i \in Procs :
             sm[i].pc = "replace" =>
               sm[i].tmp = Installed(i) /\ sm[i].tmp.kind = "valid")
  /\ [][file' # file =>
          \E i \in Procs :
            /\ sm[i].pc = "replace" /\ sm'[i].pc = "returned"
            /\ file' = Installed(i)
            /\ \A j \in Procs \ {i} : sm'[j] = sm[j]]_vars

\* While call 1 has written part of its text to its temporary file, call 2,
\* which began after call 1, has installed its mapping: the state file is
\* the complete mapping of call 2 and call 1's temporary file is its own.
C29_Witness ==
  /\ sm[1].pc = "dump" /\ sm[1].tmp.kind = "truncated"
  /\ sm[1].tmp.data = sm[1].state
  /\ sm[2].pc = "returned" /\ sm[2].op = "save"
  /\ file = Installed(2) /\ file.kind = "valid"
  /\ sm[1].state # file.data

\* _with_retry is between the call of func() and the end of its except
\* clause.
InAttempt == pc \in {"enter", "operate", "exit", "except"}

\* C30: the plugin of extract and of load is constructed once, before the
\* first attempt, and no attempt constructs another; every attempt starts
\* with connect(), calls the operation only after connect() returned and
\* disconnect() only after the operation was called; whichever of the three
\* raised, the attempt counts as one failure of the max_attempts budget and
\* the except clause waits Backoff(attempt) before the next attempt, and a
\* _with_retry that gave up has made max_attempts attempts and
\* max_attempts - 1 waits.
C30_AttemptsShareBudget ==
  /\ [](stage \in {"extract", "load"} =>
          /\ h.attOperated => h.attConnected
          /\ h.attDisc <= 1
          /\ h.attDisc = 1 => h.attOperated
          /\ pc = "enter" =>
               h.calls = attempt - 1 /\ h.failures = attempt - 1
               /\ Len(h.sleeps) = attempt - 1
          /\ pc \in {"operate", "exit", "except"} => h.calls = attempt
          /\ (pc = "failed" /\ raised \in Errs /\ (stage = "load" \/ ~h.extracted)) =>
               h.calls = MaxCalls /\ h.failures = MaxCalls
               /\ Len(h.sleeps) = MaxCalls - 1)
  /\ [][InAttempt =>
          /\ h'.srcBuilt = h.srcBuilt /\ h'.srcConfig = h.srcConfig
          /\ h'.dstBuilt = h.dstBuilt /\ h'.dstConfig = h.dstConfig]_vars
  /\ [][(pc = "except" /\ attempt < MaxCalls /\ Backoff(config.retry, attempt) >= 0) =>
          /\ pc' = "enter" /\ attempt' = attempt + 1
          /\ h'.sleeps = Append(h.sleeps, Backoff(config.retry, attempt))
          /\ h'.failures = h.failures + 1]_vars

\* The load's first attempt ended with an error of disconnect() after load
\* had returned, the wait was made, and the second attempt ended with an
\* error of connect(), which is about to be counted.
C30_Witness ==
  /\ stage = "load" /\ pc = "except" /\ pending \in Errs
  /\ attempt = 2 /\ ~h.attConnected
  /\ h.discFailed = 1 /\ h.failures = 1 /\ h.loadsOk = 1
  /\ Len(h.sleeps) = 1

====
